---- MODULE Spec2Model ----
(***************************************************************************)
(* Model of the chat frontend's graph context (GraphProvider): the         *)
(* streamMessage submission handler, the switchSelectedThread timeline     *)
(* reconstruction, and the sendChat gateway call.                          *)
(***************************************************************************)
EXTENDS Integers, Sequences, FiniteSets, TLC

(* ---------------------------- bounds ----------------------------------- *)
\* longest raw message list of a stored snapshot
MaxLen == 3
\* number of streamMessage invocations in one behaviour
MaxCalls == 2
\* number of uuidv4() values handed out in one behaviour
MaxUuid == 7

(* ------------------------- JavaScript values --------------------------- *)
\* a JS string s is the record [str |-> s]; a JS object is a record of its
\* own fields, so that a string and an object are never confused
Str(s) == [str |-> s]
IsStr(v) == DOMAIN v = {"str"}
\* JS truthiness of a string or object value
Truthy(v) == IF IsStr(v) THEN v.str # "" ELSE TRUE

\* the tokens standing for undefined / null scalar values
Undefined == "undefined"
Null == "null"
\* threadValues.router ? ... : undefined
RouterTruthy(r) == r # Undefined

\* identifiers: a server-assigned id, a uuidv4() value, or no id at all
SrvId(k) == <<"srv", k>>
Uuid(n) == <<"uuid", n>>
NoId == <<>>

(* ---------------------- timeline entries (BaseMessage) ----------------- *)
NoTool == "none"
\* the args of a tool call: step is <<>> when absent, <<k>> when present
EmptyArgs == [step |-> <<>>, router |-> Undefined, documents |-> <<>>]

\* an entry of the messages state: the message class (role), its content,
\* its id and its single tool call (name and args), if any
Entry(role, content, id, tool, args) ==
  [role |-> role, content |-> content, id |-> id, tool |-> tool, args |-> args]

(* -------------------- stored thread snapshots (inputs) ----------------- *)
MsgTypes == {"human", "ai", "system", "function"}
Contents == {Str("x"), Str("")}
Routers == {Undefined, "docs"}
\* documents: undefined (hasDocuments = FALSE), [] or a one-element list
DocLists == {<<>>, <<"doc0">>}

\* raw message lists of length n whose k-th element has server id k
RECURSIVE RawLists(_)
RawLists(n) ==
  IF n = 0 THEN {<<>>}
  ELSE {Append(l, [type |-> t, content |-> c, id |-> SrvId(n)]) :
          l \in RawLists(n - 1), t \in MsgTypes, c \in Contents}

AllRawLists == UNION {RawLists(n) : n \in 0..MaxLen}

Values(kind, msgs, router, hasDocs, docs) ==
  [msgKind |-> kind, messages |-> msgs, router |-> router,
   hasDocuments |-> hasDocs, documents |-> docs]

NoValues == Values("none", <<>>, Undefined, FALSE, <<>>)

Thread(tid, hasValues, values) ==
  [thread_id |-> tid, hasValues |-> hasValues, values |-> values]

\* every snapshot shape: well-formed ones, and those whose messages field is
\* missing or is not a sequence
AllValues ==
  {Values("seq", l, r, TRUE, d) : l \in AllRawLists, r \in Routers, d \in DocLists}
  \cup {Values("seq", l, r, FALSE, <<>>) : l \in AllRawLists, r \in Routers}
  \cup {Values(k, <<>>, r, FALSE, <<>>) : k \in {"missing", "notseq"}, r \in Routers}

AllThreads ==
  {Thread("t1", TRUE, v) : v \in AllValues} \cup {Thread("t1", FALSE, NoValues)}

(* ------------------------------ nodeToStep ------------------------------ *)
\* node names: the four the function knows, and names it does not know
NodeNames ==
  {"analyze_and_route_query", "create_research_plan", "conduct_research",
   "respond", "", "generate_queries", "Respond"}

\* the step of the last node of the graph
RespondStep == 3

\* a variant that counts the steps from one
NodeToStepFromOne(node) ==
  CASE node = "analyze_and_route_query" -> 1
    [] node = "create_research_plan" -> 2
    [] node = "conduct_research" -> 3
    [] node = "respond" -> RespondStep + 1
    [] OTHER -> 0

\* switch (node) { case ...: return k; default: return 0; }
NodeToStep(node) ==
  CASE node = "analyze_and_route_query" -> 0
    [] node = "create_research_plan" -> 1
    [] node = "conduct_research" -> 2
    [] node = "respond" -> RespondStep
    [] OTHER -> 0

(* ------------------ switchSelectedThread: reconstruction --------------- *)
\* args.step of the synthetic progress message ("Set to done.")
ProgressDoneStep == 4

\* the progress bar inserted after a human message
ProgressAIMessage(n) ==
  Entry("ai", Str(""), Uuid(n), "progress",
        [EmptyArgs EXCEPT !.step = <<ProgressDoneStep>>])

\* a variant that puts the progress bar before the human message
HumanEntriesProgressFirst(msg, n) ==
  << ProgressAIMessage(n),
     Entry("human", msg.content, msg.id, NoTool, EmptyArgs) >>

\* msg.type === "human": the human message, then its progress bar
HumanEntries(msg, n) ==
  << Entry("human", msg.content, msg.id, NoTool, EmptyArgs),
     ProgressAIMessage(n) >>

\* index === array.length - 1 || array[index + 1].type === "human"
IsLastAiMessage(index, array) ==
  \/ index = Len(array)
  \/ array[index + 1].type = "human"

\* a variant that takes any defined documents list, even an empty one
HasDocumentsDefined(values) == values.hasDocuments

\* threadValues.documents?.length
HasDocuments(values) == values.hasDocuments /\ Len(values.documents) > 0

RouterMessage(values, n) ==
  Entry("ai", Str(""), Uuid(n), "router_logic",
        [EmptyArgs EXCEPT !.router = values.router])

SelectedDocumentsAIMessage(values, n) ==
  Entry("ai", Str(""), Uuid(n), "selected_documents",
        [EmptyArgs EXCEPT !.documents = values.documents])

\* built without an id field
AnswerHeaderToolMsg == Entry("ai", Str(""), NoId, "answer_header", EmptyArgs)

\* new AIMessage({...msg, content: msg.content}): the spread hands every
\* field of the raw message to the constructor, a tool_calls field included
PlainAIMessage(msg) ==
  IF "tool_calls" \in DOMAIN msg
  THEN Entry("ai", msg.content, msg.id,
             msg.tool_calls.name, msg.tool_calls.args)
  ELSE Entry("ai", msg.content, msg.id, NoTool, EmptyArgs)

\* the block returned for the last ai message of an exchange
LastAiEntries(msg, values, n) ==
  (IF RouterTruthy(values.router) THEN <<RouterMessage(values, n)>> ELSE <<>>)
  \o (IF HasDocuments(values)
      THEN <<SelectedDocumentsAIMessage(
               values, IF RouterTruthy(values.router) THEN n + 1 ELSE n)>>
      ELSE <<>>)
  \o <<AnswerHeaderToolMsg>>
  \o <<PlainAIMessage(msg)>>

\* a variant that emits only the last ai message of an exchange
AiEntriesTerminalOnly(msg, index, array, values, n) ==
  IF IsLastAiMessage(index, array)
  THEN LastAiEntries(msg, values, n)
  ELSE <<>>

\* msg.type === "ai"
AiEntries(msg, index, array, values, n) ==
  IF IsLastAiMessage(index, array)
  THEN LastAiEntries(msg, values, n)
  ELSE <<PlainAIMessage(msg)>>

\* a variant that keeps system messages as assistant entries
MapMessageKeepSystem(msg, index, array, values, n) ==
  IF msg.type = "human" THEN HumanEntries(msg, n)
  ELSE IF msg.type = "ai" THEN AiEntries(msg, index, array, values, n)
  ELSE IF msg.type = "system" THEN <<PlainAIMessage(msg)>>
  ELSE <<>>

\* the flatMap callback; n is the next uuidv4() value
MapMessage(msg, index, array, values, n) ==
  IF msg.type = "human" THEN HumanEntries(msg, n)
  ELSE IF msg.type = "ai" THEN AiEntries(msg, index, array, values, n)
  ELSE <<>>

\* how many uuidv4() calls the callback makes for one raw message
UuidCalls(msg, index, array, values) ==
  IF msg.type = "human" THEN 1
  ELSE IF msg.type = "ai" /\ IsLastAiMessage(index, array)
  THEN (IF RouterTruthy(values.router) THEN 1 ELSE 0)
       + (IF HasDocuments(values) THEN 1 ELSE 0)
  ELSE 0

RECURSIVE FlatMapFrom(_, _, _, _)
FlatMapFrom(array, index, values, n) ==
  IF index > Len(array) THEN <<>>
  ELSE MapMessage(array[index], index, array, values, n)
       \o FlatMapFrom(array, index + 1, values,
                      n + UuidCalls(array[index], index, array, values))

RECURSIVE UuidCallsFrom(_, _, _)
UuidCallsFrom(array, index, values) ==
  IF index > Len(array) THEN 0
  ELSE UuidCalls(array[index], index, array, values)
       + UuidCallsFrom(array, index + 1, values)

\* actualMessages for a snapshot whose messages field is a sequence
ActualMessages(values, n) == FlatMapFrom(values.messages, 1, values, n)

(* ----------------------------- sendChat -------------------------------- *)
\* response bodies of POST /chat: an object with an answer field (possibly
\* the empty string), an object without one, or a bare JSON string
Bodies ==
  { [answer |-> Str("hello")], [answer |-> Str("")],
    [detail |-> Str("x")], Str("raw") }

\* what the network does with one request: fetch rejects or fulfils; a
\* fulfilled response has a status (ok or not) and a body that response.json()
\* can read or not
Net(fetch, ok, readable, body) ==
  [fetch |-> fetch, ok |-> ok, readable |-> readable, body |-> body]

NetOutcomes ==
  { Net("rejected", FALSE, FALSE, Str("")),
    Net("fulfilled", FALSE, TRUE, [detail |-> Str("x")]),
    Net("fulfilled", TRUE, FALSE, Str("")) }
  \cup { Net("fulfilled", TRUE, TRUE, b) : b \in Bodies }

Threw == [threw |-> TRUE, value |-> Str("")]
Returned(v) == [threw |-> FALSE, value |-> v]

\* a variant without the response.ok test
SendChatIgnoreStatus(net) ==
  IF net.fetch = "rejected" THEN Threw
  ELSE IF ~net.readable THEN Threw
  ELSE Returned(net.body)

\* a variant that turns an unreadable body into an empty answer
SendChatSwallowUnreadable(net) ==
  IF net.fetch = "rejected" THEN Threw
  ELSE IF ~net.ok THEN Threw
  ELSE IF ~net.readable THEN Returned(Str(""))
  ELSE Returned(net.body)

\* the settled promise of sendChat for one network outcome
SendChat(net) ==
  IF net.fetch = "rejected" THEN Threw
  ELSE IF ~net.ok THEN Threw
  ELSE IF ~net.readable THEN Threw
  ELSE Returned(net.body)

\* response.answer || response
AnswerContent(response) ==
  IF "answer" \in DOMAIN response /\ Truthy(response.answer)
  THEN response.answer
  ELSE response

(* ------------------------------- state --------------------------------- *)
ModelOptions == {"google_genai/gemini-2.0-flash", "google_genai/gemini-2.5-pro"}
UserIds == {Undefined, "user-1"}

\* the threads of the signed-in user that the sidebar can switch to
SampleThreads ==
  { Thread("t1", FALSE, NoValues),
    Thread("t2", TRUE, Values("missing", <<>>, Undefined, FALSE, <<>>)),
    Thread("t3", TRUE,
           Values("seq",
                  << [type |-> "human", content |-> Str("Q"), id |-> SrvId(31)],
                     [type |-> "ai", content |-> Str("A"), id |-> SrvId(32)] >>,
                  "docs", TRUE, <<"doc0">>)),
    Thread("t4", TRUE,
           Values("seq",
                  << [type |-> "ai", content |-> Str("a1"), id |-> SrvId(41)],
                     [type |-> "system", content |-> Str("s"), id |-> SrvId(42)],
                     [type |-> "ai", content |-> Str("a2"), id |-> SrvId(43)] >>,
                  Undefined, TRUE, <<>>)) }

VARIABLES
  userId,        \* useUser().userId
  userThreads,   \* useThreads(userId).userThreads
  runId,         \* useState("")
  isStreaming,   \* useState(false)
  messages,      \* useState<BaseMessage[]>([]): the timeline
  selectedModel, \* useState<ModelOptions>(...)
  threadId,      \* useQueryState("threadId")
  toasts,        \* notifications shown through toast(), oldest first
  requests,      \* POST /chat requests issued by sendChat, oldest first
  calls,         \* the streamMessage invocations and where each one stands
  running,       \* the invocation whose synchronous code is executing, or 0
  nextUuid,      \* the next value uuidv4() returns
  abandoned      \* history, written under TrackSpec only: the invocations
                 \* whose request was in flight during some call of
                 \* switchSelectedThread

vars == <<userId, userThreads, runId, isStreaming, messages, selectedModel,
          threadId, toasts, requests, calls, running, nextUuid, abandoned>>

CallIds == 1..MaxCalls
NoNet == Net("pending", FALSE, FALSE, Str(""))
\* pc: the statement the invocation stands at; net: what the network did with
\* its request; model: the model identifier its request carried
NewCall == [pc |-> "none", net |-> NoNet, model |-> Undefined]

InitController ==
  /\ userId \in UserIds
  /\ runId = ""
  /\ isStreaming = FALSE
  /\ messages = <<>>
  /\ selectedModel = "google_genai/gemini-2.5-pro"
  /\ threadId = Null
  /\ toasts = <<>>
  /\ requests = <<>>
  /\ calls = [i \in CallIds |-> NewCall]
  /\ running = 0
  /\ nextUuid = 1
  /\ abandoned = {}

Init == InitController /\ userThreads = SampleThreads

\* threads whose stored ai message carries a field beyond those of Message:
\* the tool_calls the backend stored with it
ExtraThreads ==
  { Thread("t1", FALSE, NoValues),
    Thread("t2", TRUE, Values("missing", <<>>, Undefined, FALSE, <<>>)),
    Thread("t5", TRUE,
           Values("seq",
                  << [type |-> "human", content |-> Str("Q"), id |-> SrvId(51)],
                     [type |-> "ai", content |-> Str("A"), id |-> SrvId(52),
                      tool_calls |->
                        [name |-> "progress",
                         args |-> [EmptyArgs EXCEPT !.step = <<1>>]]] >>,
                  Undefined, FALSE, <<>>)) }

ExtraInit == InitController /\ userThreads = ExtraThreads

(* ---------------------------- streamMessage ---------------------------- *)
Toast(title, description, call) ==
  [title |-> title, description |-> description, call |-> call]

\* !userId
UserIdMissing(u) == u = Undefined \/ u = ""

\* invocations are numbered in the order they are made
CanInvoke(i) ==
  /\ running = 0
  /\ calls[i].pc = "none"
  /\ i > 1 => calls[i - 1].pc # "none"

\* a variant that tests the user id only after setIsStreaming(true)
StreamMessageNoUserLate(i) ==
  /\ CanInvoke(i)
  /\ UserIdMissing(userId)
  /\ isStreaming' = TRUE
  /\ toasts' = Append(toasts, Toast("Error", "User ID not found", i))
  /\ calls' = [calls EXCEPT ![i].pc = "done"]
  /\ UNCHANGED <<abandoned, userId, userThreads, runId, messages,
                 selectedModel, threadId, requests, running, nextUuid>>

\* if (!userId) { toast(...); return; }
StreamMessageNoUser(i) ==
  /\ CanInvoke(i)
  /\ UserIdMissing(userId)
  /\ toasts' = Append(toasts, Toast("Error", "User ID not found", i))
  /\ calls' = [calls EXCEPT ![i].pc = "done"]
  /\ UNCHANGED <<abandoned, userId, userThreads, runId, isStreaming, messages,
                 selectedModel, threadId, requests, running, nextUuid>>

\* the identity check passes and the body of streamMessage starts
StreamMessageEnter(i) ==
  /\ CanInvoke(i)
  /\ ~UserIdMissing(userId)
  /\ calls' = [calls EXCEPT ![i].pc = "setRunId"]
  /\ running' = i
  /\ UNCHANGED <<abandoned, userId, userThreads, runId, isStreaming, messages,
                 selectedModel, threadId, toasts, requests, nextUuid>>

\* setRunId("")
ClearRunId(i) ==
  /\ running = i
  /\ calls[i].pc = "setRunId"
  /\ runId' = ""
  /\ calls' = [calls EXCEPT ![i].pc = "setIsStreaming"]
  /\ UNCHANGED <<abandoned, userId, userThreads, isStreaming, messages, selectedModel,
                 threadId, toasts, requests, running, nextUuid>>

\* setIsStreaming(true)
StartStreaming(i) ==
  /\ running = i
  /\ calls[i].pc = "setIsStreaming"
  /\ isStreaming' = TRUE
  /\ calls' = [calls EXCEPT ![i].pc = "sendChat"]
  /\ UNCHANGED <<abandoned, userId, userThreads, runId, messages, selectedModel,
                 threadId, toasts, requests, running, nextUuid>>

\* sendChat(params.messages ?? [], selectedModel) issues the request, and
\* streamMessage suspends at the await
IssueSendChat(i) ==
  /\ running = i
  /\ calls[i].pc = "sendChat"
  /\ requests' = Append(requests, [call |-> i, model |-> selectedModel])
  /\ calls' = [calls EXCEPT ![i].pc = "awaiting", ![i].model = selectedModel]
  /\ running' = 0
  /\ UNCHANGED <<abandoned, userId, userThreads, runId, isStreaming, messages,
                 selectedModel, threadId, toasts, nextUuid>>

\* the promise of sendChat settles and streamMessage resumes, in the try
\* block when it was fulfilled and in the catch block when it was rejected
SettleSendChat(i, net) ==
  /\ running = 0
  /\ calls[i].pc = "awaiting"
  /\ calls' = [calls EXCEPT ![i].net = net,
                            ![i].pc = IF SendChat(net).threw
                                      THEN "catch" ELSE "setMessages"]
  /\ running' = i
  /\ UNCHANGED <<abandoned, userId, userThreads, runId, isStreaming, messages,
                 selectedModel, threadId, toasts, requests, nextUuid>>

\* the assistant message built from the response
AnswerMessage(response, n) ==
  Entry("ai", AnswerContent(response), Uuid(n), NoTool, EmptyArgs)

\* a variant that puts the answer in front of the previous timeline
AppendAnswerInFront(i) ==
  /\ running = i
  /\ calls[i].pc = "setMessages"
  /\ nextUuid <= MaxUuid
  /\ messages' = <<AnswerMessage(SendChat(calls[i].net).value, nextUuid)>>
                   \o messages
  /\ nextUuid' = nextUuid + 1
  /\ calls' = [calls EXCEPT ![i].pc = "finally"]
  /\ UNCHANGED <<abandoned, userId, userThreads, runId, isStreaming,
                 selectedModel, threadId, toasts, requests, running>>

\* setMessages((prevMessages) => [...prevMessages, new AIMessage(...)])
AppendAnswer(i) ==
  /\ running = i
  /\ calls[i].pc = "setMessages"
  /\ nextUuid <= MaxUuid
  /\ messages' = Append(messages,
                        AnswerMessage(SendChat(calls[i].net).value, nextUuid))
  /\ nextUuid' = nextUuid + 1
  /\ calls' = [calls EXCEPT ![i].pc = "finally"]
  /\ UNCHANGED <<abandoned, userId, userThreads, runId, isStreaming, selectedModel,
                 threadId, toasts, requests, running>>

\* a variant whose catch block returns, the flag reset not being in a finally
ToastFailureReturns(i) ==
  /\ running = i
  /\ calls[i].pc = "catch"
  /\ toasts' = Append(toasts,
        Toast("Error", "Failed to get response from backend.", i))
  /\ calls' = [calls EXCEPT ![i].pc = "done"]
  /\ running' = 0
  /\ UNCHANGED <<abandoned, userId, userThreads, runId, isStreaming, messages,
                 selectedModel, threadId, requests, nextUuid>>

\* catch (e) { toast(...) }
ToastFailure(i) ==
  /\ running = i
  /\ calls[i].pc = "catch"
  /\ toasts' = Append(toasts,
        Toast("Error", "Failed to get response from backend.", i))
  /\ calls' = [calls EXCEPT ![i].pc = "finally"]
  /\ UNCHANGED <<abandoned, userId, userThreads, runId, isStreaming, messages,
                 selectedModel, threadId, requests, running, nextUuid>>

\* finally { setIsStreaming(false) }, and streamMessage returns
StopStreaming(i) ==
  /\ running = i
  /\ calls[i].pc = "finally"
  /\ isStreaming' = FALSE
  /\ calls' = [calls EXCEPT ![i].pc = "done"]
  /\ running' = 0
  /\ UNCHANGED <<abandoned, userId, userThreads, runId, messages, selectedModel,
                 threadId, toasts, requests, nextUuid>>

(* ------------------------- switchSelectedThread ------------------------ *)
\* the invocations whose request is in flight
Outstanding == {i \in CallIds : calls[i].pc = "awaiting"}

\* a variant that returns before the thread id is written
SwitchNoValuesKeepsThreadId(thread) ==
  /\ running = 0
  /\ ~thread.hasValues
  /\ messages' = <<>>
  /\ UNCHANGED <<userId, userThreads, runId, isStreaming, selectedModel,
                 threadId, toasts, requests, calls, running, nextUuid>>

\* a variant that also ends the streaming state when it empties the timeline
SwitchNoValuesStopsStreaming(thread) ==
  /\ running = 0
  /\ ~thread.hasValues
  /\ threadId' = thread.thread_id
  /\ messages' = <<>>
  /\ isStreaming' = FALSE
  /\ runId' = ""
  /\ UNCHANGED <<userId, userThreads, selectedModel,
                 toasts, requests, calls, running, nextUuid>>

\* if (!thread.values) { setMessages([]); return; }
SwitchNoValues(thread) ==
  /\ running = 0
  /\ ~thread.hasValues
  /\ threadId' = thread.thread_id
  /\ messages' = <<>>
  /\ UNCHANGED <<userId, userThreads, runId, isStreaming, selectedModel,
                 toasts, requests, calls, running, nextUuid>>

\* a variant that reads a missing message list as an empty one
SwitchMalformedAsEmpty(thread) ==
  /\ running = 0
  /\ thread.hasValues
  /\ thread.values.msgKind # "seq"
  /\ threadId' = thread.thread_id
  /\ messages' = <<>>
  /\ UNCHANGED <<userId, userThreads, runId, isStreaming,
                 selectedModel, toasts, requests, calls, running, nextUuid>>

\* threadValues.messages is undefined or has no flatMap: the call throws
\* after setThreadId, before setMessages
SwitchMalformed(thread) ==
  /\ running = 0
  /\ thread.hasValues
  /\ thread.values.msgKind # "seq"
  /\ threadId' = thread.thread_id
  /\ UNCHANGED <<userId, userThreads, runId, isStreaming, messages,
                 selectedModel, toasts, requests, calls, running, nextUuid>>

\* a variant that merges the reconstruction into the present timeline
SwitchReconstructMerge(thread) ==
  /\ running = 0
  /\ thread.hasValues
  /\ thread.values.msgKind = "seq"
  /\ nextUuid + UuidCallsFrom(thread.values.messages, 1, thread.values)
       <= MaxUuid + 1
  /\ threadId' = thread.thread_id
  /\ messages' = messages \o ActualMessages(thread.values, nextUuid)
  /\ nextUuid' = nextUuid
                  + UuidCallsFrom(thread.values.messages, 1, thread.values)
  /\ UNCHANGED <<userId, userThreads, runId, isStreaming, selectedModel,
                 toasts, requests, calls, running>>

\* setThreadId(thread.thread_id); ...; setMessages(actualMessages)
SwitchReconstruct(thread) ==
  /\ running = 0
  /\ thread.hasValues
  /\ thread.values.msgKind = "seq"
  /\ nextUuid + UuidCallsFrom(thread.values.messages, 1, thread.values)
       <= MaxUuid + 1
  /\ threadId' = thread.thread_id
  /\ messages' = ActualMessages(thread.values, nextUuid)
  /\ nextUuid' = nextUuid
                  + UuidCallsFrom(thread.values.messages, 1, thread.values)
  /\ UNCHANGED <<userId, userThreads, runId, isStreaming, selectedModel,
                 toasts, requests, calls, running>>

\* one whole call of switchSelectedThread(thread)
SwitchSelectedThread(thread) ==
  \/ SwitchNoValues(thread)
  \/ SwitchMalformed(thread)
  \/ SwitchReconstruct(thread)

\* a variant in which the model of a request is read when the backend handles
\* it, so that a later selection rewrites the requests already issued
SetSelectedModelRewritesRequests(model) ==
  /\ running = 0
  /\ selectedModel' = model
  /\ requests' = [k \in DOMAIN requests |->
                    [requests[k] EXCEPT !.model = model]]
  /\ UNCHANGED <<abandoned, userId, userThreads, runId, isStreaming, messages,
                 threadId, toasts, calls, running, nextUuid>>

\* setSelectedModel(model)
SetSelectedModel(model) ==
  /\ running = 0
  /\ selectedModel' = model
  /\ UNCHANGED <<abandoned, userId, userThreads, runId, isStreaming, messages, threadId,
                 toasts, requests, calls, running, nextUuid>>

(* --------------------------- specifications ---------------------------- *)
Next ==
  \/ \E i \in CallIds : StreamMessageNoUser(i)
  \/ \E i \in CallIds : StreamMessageEnter(i)
  \/ \E i \in CallIds : ClearRunId(i)
  \/ \E i \in CallIds : StartStreaming(i)
  \/ \E i \in CallIds : IssueSendChat(i)
  \/ \E i \in CallIds, net \in NetOutcomes : SettleSendChat(i, net)
  \/ \E i \in CallIds : AppendAnswer(i)
  \/ \E i \in CallIds : ToastFailure(i)
  \/ \E i \in CallIds : StopStreaming(i)
  \/ \E thread \in userThreads :
       SwitchNoValues(thread) /\ UNCHANGED abandoned
  \/ \E thread \in userThreads :
       SwitchMalformed(thread) /\ UNCHANGED abandoned
  \/ \E thread \in userThreads :
       SwitchReconstruct(thread) /\ UNCHANGED abandoned
  \/ \E model \in ModelOptions : SetSelectedModel(model)

Spec == Init /\ [][Next]_vars

\* the reconstruction applied to every snapshot shape: the user has one
\* stored thread, and only thread switches happen
RecInit == InitController /\ \E t \in AllThreads : userThreads = {t}

RecNext ==
  \/ \E thread \in userThreads :
       SwitchNoValues(thread) /\ UNCHANGED abandoned
  \/ \E thread \in userThreads :
       SwitchMalformed(thread) /\ UNCHANGED abandoned
  \/ \E thread \in userThreads :
       SwitchReconstruct(thread) /\ UNCHANGED abandoned

RecSpec == RecInit /\ [][RecNext]_vars

\* Spec with the history of which requests were in flight during a thread
\* switch: the same actions, the switch also recording the outstanding
\* invocations
TrackNext ==
  \/ \E i \in CallIds : StreamMessageNoUser(i)
  \/ \E i \in CallIds : StreamMessageEnter(i)
  \/ \E i \in CallIds : ClearRunId(i)
  \/ \E i \in CallIds : StartStreaming(i)
  \/ \E i \in CallIds : IssueSendChat(i)
  \/ \E i \in CallIds, net \in NetOutcomes : SettleSendChat(i, net)
  \/ \E i \in CallIds : AppendAnswer(i)
  \/ \E i \in CallIds : ToastFailure(i)
  \/ \E i \in CallIds : StopStreaming(i)
  \/ \E thread \in userThreads :
       SwitchNoValues(thread) /\ abandoned' = abandoned \cup Outstanding
  \/ \E thread \in userThreads :
       SwitchMalformed(thread) /\ abandoned' = abandoned \cup Outstanding
  \/ \E thread \in userThreads :
       SwitchReconstruct(thread) /\ abandoned' = abandoned \cup Outstanding
  \/ \E model \in ModelOptions : SetSelectedModel(model)

TrackSpec == Init /\ [][TrackNext]_vars

\* the provider over threads whose stored messages carry extra fields
ExtraSpec == ExtraInit /\ [][Next]_vars

\* threads for the runs to completion: one without values, one malformed and
\* one whose stored list is empty; their reconstruction draws no uuidv4()
\* value, so that within the bounds every answer finds a value to take
LiveThreads ==
  { Thread("t1", FALSE, NoValues),
    Thread("t2", TRUE, Values("missing", <<>>, Undefined, FALSE, <<>>)),
    Thread("t6", TRUE, Values("seq", <<>>, Undefined, FALSE, <<>>)) }

LiveInit == InitController /\ userThreads = LiveThreads

\* the synchronous statements of an invocation run to completion, and the
\* promise of every request issued is settled
Fairness ==
  \A i \in CallIds :
    /\ WF_vars(ClearRunId(i))
    /\ WF_vars(StartStreaming(i))
    /\ WF_vars(IssueSendChat(i))
    /\ WF_vars(\E net \in NetOutcomes : SettleSendChat(i, net))
    /\ WF_vars(AppendAnswer(i))
    /\ WF_vars(ToastFailure(i))
    /\ WF_vars(StopStreaming(i))

LiveSpec == LiveInit /\ [][Next]_vars /\ Fairness

(* ===================== properties of the reconstruction ================ *)
\* the thread whose snapshot produced the present timeline, in RecSpec: the
\* user's only thread, once switchSelectedThread has been called on it
Reconstructed(t) ==
  /\ t \in userThreads
  /\ threadId = t.thread_id
  /\ t.hasValues
  /\ t.values.msgKind = "seq"

Positions(seq) == 1..Len(seq)
CountTool(seq, tool) ==
  Cardinality({k \in Positions(seq) : seq[k].tool = tool})
CountRole(seq, role) ==
  Cardinality({k \in Positions(seq) : seq[k].role = role})

IsHuman(e) == e.role = "human"
IsProgress(e) == e.tool = "progress"
IsRouter(e) == e.tool = "router_logic"
IsSelectedDocuments(e) == e.tool = "selected_documents"
IsAnswerHeader(e) == e.tool = "answer_header"
IsMarker(e) == e.tool # NoTool
IsAssistant(e) == e.role = "ai" /\ e.tool = NoTool

\* C1: in the timeline reconstructed from a snapshot whose messages field is
\* a sequence, every human message is immediately followed by a progress
\* marker, and every progress marker immediately follows a human message
\* (so exactly one marker per human message and none anywhere else).
C1_ProgressFollowsHuman ==
  \A t \in userThreads : Reconstructed(t) =>
    /\ \A k \in Positions(messages) : IsHuman(messages[k]) =>
          /\ k + 1 <= Len(messages)
          /\ IsProgress(messages[k + 1])
    /\ \A k \in Positions(messages) : IsProgress(messages[k]) =>
          /\ k > 1
          /\ IsHuman(messages[k - 1])
    /\ CountTool(messages, "progress") = CountRole(messages, "human")

\* C1 witness: a reconstructed timeline with two human messages, one of them
\* followed (after its marker) by further entries
C1_Witness ==
  \E t \in userThreads :
    /\ Reconstructed(t)
    /\ CountRole(messages, "human") >= 2
    /\ \E k \in Positions(messages) :
         IsHuman(messages[k]) /\ k + 2 <= Len(messages)

\* maximal contiguous runs of ai-typed entries of a raw list: one per
\* position that holds an ai entry and is not followed by another one
AiRuns(raw) ==
  Cardinality({k \in Positions(raw) :
                 /\ raw[k].type = "ai"
                 /\ k = Len(raw) \/ raw[k + 1].type # "ai"})

\* C2: the number of answer-header markers of the reconstructed timeline
\* equals the number of maximal contiguous runs of ai entries of the raw
\* message list, for raw lists of any mix of the four types.
C2_HeadersEqualAiRuns ==
  \A t \in userThreads : Reconstructed(t) =>
    CountTool(messages, "answer_header") = AiRuns(t.values.messages)

\* the snapshot carries a non-empty documents list
DocumentsPresent(v) == v.hasDocuments /\ v.documents # <<>>
\* the snapshot carries a router value
RouterPresent(v) == v.router # Undefined

\* number of markers a terminal block holds before its answer-header
BlockPrefix(v) ==
  (IF RouterPresent(v) THEN 1 ELSE 0) + (IF DocumentsPresent(v) THEN 1 ELSE 0)

\* the raw ai entries the code treats as terminal: last of the list, or
\* directly followed by a human entry
CodeTerminal(raw, j) ==
  /\ raw[j].type = "ai"
  /\ j = Len(raw) \/ raw[j + 1].type = "human"

\* the entries at positions k - BlockPrefix(v) .. k + 1 of the timeline are
\* one terminal block of snapshot v whose answer-header sits at position k
BlockAt(tl, k, v) ==
  LET r == RouterPresent(v)
      d == DocumentsPresent(v)
      first == k - BlockPrefix(v)
  IN /\ first >= 1
     /\ k + 1 <= Len(tl)
     /\ IsAnswerHeader(tl[k])
     /\ tl[k].content = Str("")
     /\ IsAssistant(tl[k + 1])
     /\ d => /\ IsSelectedDocuments(tl[k - 1])
             /\ tl[k - 1].args.documents = v.documents
             /\ tl[k - 1].content = Str("")
     /\ r => /\ IsRouter(tl[first])
             /\ tl[first].args.router = v.router
             /\ tl[first].content = Str("")
     \* what precedes the block is not one more marker of the block's kinds
     /\ first > 1 => ~IsRouter(tl[first - 1])
                      /\ ~IsSelectedDocuments(tl[first - 1])
                      /\ ~IsAnswerHeader(tl[first - 1])

C3_WitnessBare ==
  \E t \in userThreads :
    /\ Reconstructed(t)
    /\ ~RouterPresent(t.values)
    /\ t.values.hasDocuments /\ t.values.documents = <<>>
    /\ \E k \in Positions(messages) : BlockAt(messages, k, t.values)

Recognized(type) == type \in {"human", "ai"}

\* the role an entry made from a raw message of the given type carries
RoleOf(type) == IF type = "human" THEN "human" ELSE "ai"

\* C4: a raw message whose type is neither human nor ai contributes nothing
\* to the reconstructed timeline: every non-marker entry is the image of a
\* raw human or ai message (same id, role and content), a progress marker
\* sits behind a human entry, and every router, selected-documents and
\* answer-header marker belongs to the block of an assistant entry; a raw list
\* without human and ai messages gives the empty timeline.
C4_OtherTypesDropped ==
  \A t \in userThreads : Reconstructed(t) =>
    LET raw == t.values.messages
    IN /\ \A k \in Positions(messages) :
            ~IsMarker(messages[k]) =>
              \E j \in Positions(raw) :
                /\ Recognized(raw[j].type)
                /\ raw[j].id = messages[k].id
                /\ RoleOf(raw[j].type) = messages[k].role
                /\ raw[j].content = messages[k].content
       /\ \A k \in Positions(messages), j \in Positions(raw) :
            raw[j].id = messages[k].id => Recognized(raw[j].type)
       /\ \A k \in Positions(messages) :
            /\ IsProgress(messages[k]) => k > 1 /\ IsHuman(messages[k - 1])
            /\ IsMarker(messages[k]) /\ ~IsProgress(messages[k]) =>
                 \E m \in Positions(messages) :
                   /\ m > k
                   /\ m <= k + 3
                   /\ IsAssistant(messages[m])
                   /\ \A q \in (k + 1)..(m - 1) :
                        IsMarker(messages[q]) /\ ~IsProgress(messages[q])
       /\ Len(messages) <= 4 * Cardinality({j \in Positions(raw) :
                                              Recognized(raw[j].type)})

\* C4 witness: a timeline reconstructed from a raw list that mixes a dropped
\* type with human and ai messages
C4_Witness ==
  \E t \in userThreads :
    /\ Reconstructed(t)
    /\ \E j \in Positions(t.values.messages) :
         ~Recognized(t.values.messages[j].type)
    /\ CountRole(messages, "human") >= 1
    /\ CountTool(messages, "answer_header") >= 1

\* C4 witness of the empty case: a non-empty raw list of dropped types only
\* has been reconstructed into the empty timeline
C4_WitnessEmpty ==
  \E t \in userThreads :
    /\ Reconstructed(t)
    /\ Len(t.values.messages) >= 2
    /\ \A j \in Positions(t.values.messages) :
         ~Recognized(t.values.messages[j].type)
    /\ messages = <<>>

\* an entry without the id that uuidv4() gave it
StripUuid(e) ==
  IF Len(e.id) > 0 /\ e.id[1] = "uuid" THEN [e EXCEPT !.id = NoId] ELSE e

StripUuids(tl) == [k \in Positions(tl) |-> StripUuid(tl[k])]

\* C5: a second run of switchSelectedThread on the same snapshot, started
\* from the state the first run left (another timeline, other uuids to hand
\* out), gives a timeline of the same length whose entries agree with the
\* first run's position by position once the uuids are set aside.
C5_Deterministic ==
  [][\A t \in userThreads :
       (Reconstructed(t) /\ SwitchSelectedThread(t)) =>
         StripUuids(messages') = StripUuids(messages)]_vars

\* C5 witness: the snapshot has been reconstructed twice (the uuids of the
\* timeline are no longer the first ones handed out) into a timeline with
\* markers
C5_Witness ==
  \E t \in userThreads :
    /\ Reconstructed(t)
    /\ Len(messages) >= 4
    /\ \E k \in Positions(messages) :
         /\ IsProgress(messages[k])
         /\ messages[k].id # Uuid(1)
         /\ messages[k].id = Uuid(nextUuid - UuidCallsFrom(t.values.messages, 1, t.values))

(* ======================== properties of streamMessage ================== *)
\* what the network did with the request of a call
NetSucceeded(net) == net.fetch = "fulfilled" /\ net.ok /\ net.readable
NetRejected(net) == net.fetch = "rejected"
NetNonSuccess(net) == net.fetch = "fulfilled" /\ ~net.ok
NetUnreadable(net) == net.fetch = "fulfilled" /\ net.ok /\ ~net.readable

\* call i takes a step
Steps(i) == calls'[i].pc # calls[i].pc
\* call i takes the step from statement p to statement q
StepsFromTo(i, p, q) == calls[i].pc = p /\ calls'[i].pc = q

\* the answer text of a response body: its answer field when it has one,
\* the whole body otherwise
AnswerText(body) == IF "answer" \in DOMAIN body THEN body.answer ELSE body

Ids(tl) == {tl[k].id : k \in Positions(tl)}

\* C6: once the chat call of an invocation has succeeded, its steps append
\* exactly one entry to the end of the timeline, an assistant message whose
\* content is the answer text of the response and whose id is defined and
\* differs from every id already in the timeline; earlier entries stay put.
C6_AppendOnSuccess ==
  [][\A i \in CallIds :
       (Steps(i) /\ NetSucceeded(calls[i].net)) =>
         IF calls[i].pc = "setMessages"
         THEN /\ Len(messages') = Len(messages) + 1
              /\ SubSeq(messages', 1, Len(messages)) = messages
              /\ IsAssistant(messages'[Len(messages')])
              /\ messages'[Len(messages')].content
                   = AnswerText(calls[i].net.body)
              /\ messages'[Len(messages')].id # NoId
              /\ messages'[Len(messages')].id \notin Ids(messages)
         ELSE messages' = messages]_vars

\* C7: no step of an invocation whose chat call fails (the fetch rejects or
\* the response has a non-success status) changes the timeline, neither
\* before nor after the failure is known, and the step that ends such an
\* invocation leaves isStreaming false.
C7_FailureLeavesTimeline ==
  [][\A i \in CallIds :
       /\ (Steps(i) /\ messages' # messages) => NetSucceeded(calls'[i].net)
       /\ (Steps(i) /\ (NetRejected(calls'[i].net)
                          \/ NetNonSuccess(calls'[i].net))) =>
            /\ messages' = messages
            /\ calls'[i].pc = "done" => ~isStreaming']_vars

\* C7 witness: an invocation whose request got a non-success response has
\* returned, with entries in the timeline and the flag cleared
C7_Witness ==
  \E i \in CallIds :
    /\ calls[i].pc = "done"
    /\ NetNonSuccess(calls[i].net)
    /\ Len(messages) >= 2
    /\ ~isStreaming

ToastsOf(i) == {k \in Positions(toasts) : toasts[k].call = i}

\* C8: an invocation whose chat call failed in any way (fetch rejected,
\* non-success status, unreadable body) goes through the catch block and not
\* through the append, and by the time it reaches the finally block it has
\* shown exactly one notification, the generic one; an invocation whose call
\* succeeded has shown none.
C8_FailuresCaughtOnce ==
  \A i \in CallIds :
    calls[i].net.fetch # "pending" =>
      IF NetSucceeded(calls[i].net)
      THEN /\ calls[i].pc \in {"setMessages", "finally", "done"}
           /\ ToastsOf(i) = {}
      ELSE /\ calls[i].pc \in {"catch", "finally", "done"}
           /\ calls[i].pc \in {"finally", "done"} =>
                /\ Cardinality(ToastsOf(i)) = 1
                /\ \A k \in ToastsOf(i) :
                     /\ toasts[k].title = "Error"
                     /\ toasts[k].description
                          = "Failed to get response from backend."

\* C8 witness: one invocation has returned after an unreadable body and one
\* after a rejected fetch, each with its notification
C8_Witness ==
  \E i, j \in CallIds :
    /\ calls[i].pc = "done" /\ NetUnreadable(calls[i].net)
    /\ calls[j].pc = "done" /\ NetRejected(calls[j].net)
    /\ Len(toasts) = 2

\* C9: an invocation made without a user id returns in its first step: it
\* issues no request, shows exactly one "User ID not found" notification,
\* finds isStreaming false and leaves it false, and leaves the timeline and
\* the run id as they were.
C9_NoIdentity ==
  [][\A i \in CallIds :
       (Steps(i) /\ userId = Undefined) =>
         /\ StepsFromTo(i, "none", "done")
         /\ requests' = requests
         /\ requests = <<>>
         /\ Len(toasts') = Len(toasts) + 1
         /\ SubSeq(toasts', 1, Len(toasts)) = toasts
         /\ toasts'[Len(toasts')].description = "User ID not found"
         /\ ~isStreaming /\ ~isStreaming'
         /\ messages' = messages
         /\ runId' = runId]_vars

\* C9 witness: without a user id, an invocation has returned after a thread
\* was opened, leaving one notification behind
C9_Witness ==
  /\ userId = Undefined
  /\ calls[1].pc = "done"
  /\ Len(toasts) = 1
  /\ Len(messages) >= 2

\* no other invocation is between its entry and its return
Alone(i) == \A j \in CallIds \ {i} : calls[j].pc \in {"none", "done"}

\* no other invocation has returned, so none has run its finally block
NoOtherReturned(i) == \A j \in CallIds \ {i} : calls[j].pc # "done"

RequestsOf(i) == {k \in Positions(requests) : requests[k].call = i}

C11_ContentIsAnswerField ==
  [][\A i \in CallIds :
       (StepsFromTo(i, "setMessages", "finally") /\ messages' # messages) =>
         LET body == calls[i].net.body
             last == messages'[Len(messages')]
         IN IF "answer" \in DOMAIN body
            THEN last.content = body.answer
            ELSE last.content = body]_vars

(* ===================== properties of switchSelectedThread ============== *)
\* C12: a call of switchSelectedThread on a thread whose snapshot has a
\* message sequence leaves exactly the reconstruction of that snapshot as the
\* timeline (the one obtained from the empty state, uuids set aside), and no
\* uuid of the timeline it replaced survives.
C12_WholesaleReplacement ==
  [][\A t \in userThreads :
       (SwitchSelectedThread(t) /\ t.hasValues /\ t.values.msgKind = "seq") =>
         /\ StripUuids(messages') = StripUuids(ActualMessages(t.values, 1))
         /\ \A k \in Positions(messages), m \in Positions(messages') :
              messages[k].id # NoId /\ messages[k].id[1] = "uuid"
                => messages'[m].id # messages[k].id]_vars

\* C12 witness: a successful invocation has appended its answer and returned,
\* and the timeline is the six-entry reconstruction of thread t3 made
\* afterwards, with nothing of the answer left
C12_Witness ==
  /\ threadId = "t3"
  /\ \E i \in CallIds : calls[i].pc = "done" /\ NetSucceeded(calls[i].net)
  /\ Len(messages) = 6
  /\ IsProgress(messages[2])
  /\ messages[2].id # Uuid(1)

\* C13: every call of switchSelectedThread writes the thread's id to the
\* current-thread identifier, whether the thread has values, has none, or has
\* a snapshot without a message sequence; for a thread without values it
\* empties the timeline and changes nothing else.
C13_ThreadIdAlwaysWritten ==
  [][\A t \in userThreads :
       SwitchSelectedThread(t) =>
         /\ threadId' = t.thread_id
         /\ ~t.hasValues =>
              /\ messages' = <<>>
              /\ UNCHANGED <<userId, userThreads, runId, isStreaming,
                             selectedModel, toasts, requests, calls, running,
                             nextUuid>>]_vars

\* C13 witness: the current thread is the one with the malformed snapshot,
\* selected while the timeline held entries
C13_Witness ==
  /\ threadId = "t2"
  /\ Len(messages) >= 1

\* C13 witness of the no-values case: the thread without values is current,
\* the timeline is empty and uuids have been handed out before
C13_WitnessNoValues ==
  /\ threadId = "t1"
  /\ messages = <<>>
  /\ nextUuid > 1


\* C14: when switchSelectedThread was called while the backend call of a
\* streamMessage invocation was outstanding, the later successful completion
\* of that invocation does not put its answer into the timeline of the thread
\* that was switched to: its resumption leaves the timeline as it is
C14_AbandonedAnswerNotShown ==
  [][\A i \in CallIds :
       (i \in abandoned /\ StepsFromTo(i, "setMessages", "finally")) =>
         messages' = messages]_vars

\* C15: at any time at most one backend call of streamMessage is outstanding
C15_AtMostOneOutstanding == Cardinality(Outstanding) <= 1


\* the invocation has been entered and its request is not yet issued
BeforeIssue(i) == calls[i].pc \in {"setRunId", "setIsStreaming", "sendChat"}

\* C16: selectedModel starts as google_genai/gemini-2.5-pro; the request of an
\* invocation carries the value selectedModel had when streamMessage was
\* invoked (the value does not change between the invocation and the issue of
\* the request, and the request carries the value at the issue); a change of
\* selectedModel changes no issued request, no invocation and no timeline
\* entry, and issued requests are never rewritten
C16_ModelCapturedAtInvocation ==
  /\ selectedModel = "google_genai/gemini-2.5-pro"
  /\ [][/\ \A i \in CallIds :
             /\ (StepsFromTo(i, "none", "setRunId") \/ BeforeIssue(i)) =>
                  selectedModel' = selectedModel
             /\ StepsFromTo(i, "sendChat", "awaiting") =>
                  /\ requests' = Append(requests,
                                        [call |-> i, model |-> selectedModel])
                  /\ calls'[i].model = selectedModel
             /\ ~(calls[i].pc = "none" \/ BeforeIssue(i)) =>
                  calls'[i].model = calls[i].model
        /\ selectedModel' # selectedModel =>
             requests' = requests /\ calls' = calls /\ messages' = messages
        /\ \A k \in 1..Len(requests) :
             Len(requests') >= k /\ requests'[k] = requests[k]]_vars

\* a request is outstanding with the initial model, the selection was changed
\* while it was, and the next submission carried the new selection
C16_Witness ==
  /\ Len(requests) = 2
  /\ calls[requests[1].call].pc = "awaiting"
  /\ requests[1].model = "google_genai/gemini-2.5-pro"
  /\ selectedModel # requests[1].model
  /\ requests[2].model = selectedModel

\* the abandoned-by-selection run completes with the answer of its own request
C16_WitnessResult ==
  \E i \in CallIds :
    /\ calls[i].pc = "done"
    /\ NetSucceeded(calls[i].net)
    /\ calls[i].model # selectedModel
    /\ Len(messages) >= 1


\* C17: a switch to a thread that has stored values whose messages field is
\* missing or is not a sequence halts before any timeline is produced: the
\* timeline, and everything but the current-thread identifier, is left as it
\* was, and no identifier is drawn for a partial reconstruction
C17_MalformedFailsFast ==
  [][\A t \in userThreads :
       (SwitchSelectedThread(t) /\ t.hasValues /\ t.values.msgKind # "seq") =>
         /\ messages' = messages
         /\ nextUuid' = nextUuid
         /\ toasts' = toasts
         /\ calls' = calls]_vars

\* the timeline reconstructed for t3 is still shown after the failed switch
C17_Witness ==
  /\ threadId = "t2"
  /\ Len(messages) = 6
  /\ IsProgress(messages[2])
  /\ IsAnswerHeader(messages[5])


\* the entry came from a stored raw message: it has a server-assigned id
FromRawMessage(e) == e.id # NoId /\ e.id[1] = "srv"

\* C18: in every reachable timeline every entry that carries a marker tool
\* call has empty content, and every human entry and every entry that came
\* from a raw message carries no marker tool call; the entry appended for a
\* backend answer carries none either
C18_MarkersAndRealEntriesDisjoint ==
  /\ [](\A k \in Positions(messages) :
          /\ IsMarker(messages[k]) => messages[k].content = Str("")
          /\ (IsHuman(messages[k]) \/ FromRawMessage(messages[k])) =>
               ~IsMarker(messages[k]))
  /\ [][\A i \in CallIds :
          StepsFromTo(i, "setMessages", "finally") =>
            ~IsMarker(messages'[Len(messages')])]_vars


\* C19: in every reachable timeline every entry has a defined id and no two
\* entries share an id
C19_IdsDefinedAndUnique ==
  /\ \A k \in Positions(messages) : messages[k].id # NoId
  /\ \A k, m \in Positions(messages) :
       k # m => messages[k].id # messages[m].id


\* tl is an initial part of tl2, entry for entry
IsPrefix(tl, tl2) ==
  /\ Len(tl) <= Len(tl2)
  /\ \A k \in Positions(tl) : tl2[k] = tl[k]

\* C20: every step of streamMessage leaves the previous timeline as a prefix
\* of the new one, growing it by at most the one answer, and the only steps
\* after which the previous timeline is not a prefix are calls of
\* switchSelectedThread
C20_OnlySwitchRemoves ==
  [][/\ \A i \in CallIds :
          Steps(i) => /\ IsPrefix(messages, messages')
                      /\ Len(messages') <= Len(messages) + 1
     /\ ~IsPrefix(messages, messages') =>
          \E t \in userThreads : SwitchSelectedThread(t)]_vars

\* an answer was appended behind the six entries reconstructed for t3
C20_Witness ==
  /\ Len(messages) = 7
  /\ IsHuman(messages[1])
  /\ messages[1].id = SrvId(31)
  /\ IsAssistant(messages[7])
  /\ messages[7].id[1] = "uuid"


\* raw[j] is the last ai entry before the next human entry or the end of the
\* list: no ai entry lies behind it without a human entry in between
TerminalAssistant(raw, j) ==
  /\ raw[j].type = "ai"
  /\ \A m \in (j + 1)..Len(raw) :
       raw[m].type = "ai" => \E h \in (j + 1)..(m - 1) : raw[h].type = "human"

\* C21: every ai entry of the raw list is emitted once, with its content;
\* an answer-header marker stands directly before it if and only if it is
\* the last ai entry before the next human entry or the end of the list, and
\* otherwise no marker of a terminal block stands before it; raw lists with
\* system and function entries between an ai entry and the next human entry
\* or the end of the list are included
C21_HeaderIffTerminal ==
  \A t \in userThreads : Reconstructed(t) =>
    LET raw == t.values.messages
    IN \A j \in Positions(raw) : raw[j].type = "ai" =>
         /\ Cardinality({k \in Positions(messages) :
                           messages[k].id = raw[j].id}) = 1
         /\ \A k \in Positions(messages) : messages[k].id = raw[j].id =>
              /\ messages[k].content = raw[j].content
              /\ IsAssistant(messages[k])
              /\ (k > 1 /\ IsAnswerHeader(messages[k - 1]))
                   <=> TerminalAssistant(raw, j)
              /\ (~TerminalAssistant(raw, j) /\ k > 1) =>
                   /\ ~IsRouter(messages[k - 1])
                   /\ ~IsSelectedDocuments(messages[k - 1])
                   /\ ~IsAnswerHeader(messages[k - 1])


\* the entry is not a marker
IsRealEntry(e) == ~IsMarker(e)
\* the raw message is of type human or ai
IsRecognizedMsg(msg) == Recognized(msg.type)

\* C22: the reconstructed timeline without its markers is the raw list
\* restricted to the human and ai messages: the same number of entries, in
\* the same order, each with the role, the content and the id of its raw
\* message
C22_RealEntriesAreRawList ==
  \A t \in userThreads : Reconstructed(t) =>
    LET kept == SelectSeq(t.values.messages, IsRecognizedMsg)
        real == SelectSeq(messages, IsRealEntry)
    IN /\ Len(real) = Len(kept)
       /\ \A k \in Positions(kept) :
            /\ real[k].role = RoleOf(kept[k].type)
            /\ real[k].content = kept[k].content
            /\ real[k].id = kept[k].id

\* C22 witness: a raw list of two consecutive ai messages and one message of
\* another kind has been reconstructed, both ai messages being in the
\* timeline in their order
C22_Witness ==
  \E t \in userThreads :
    /\ Reconstructed(t)
    /\ Len(t.values.messages) = 3
    /\ \E j \in 1..2 : /\ t.values.messages[j].type = "ai"
                       /\ t.values.messages[j + 1].type = "ai"
    /\ \E j \in Positions(t.values.messages) :
         t.values.messages[j].type \in {"human", "system"}
    /\ Len(SelectSeq(messages, IsRealEntry)) >= 2


\* invocation i has passed the identity check and has not returned
InProgress(i) == calls[i].pc \notin {"none", "done"}

\* C23: every invocation that passes the identity check returns, with
\* isStreaming false at its return, given that its request is settled; and
\* when no invocation is in progress the flag is false
C23_EventuallyIdle ==
  /\ []((\A i \in CallIds : ~InProgress(i)) => ~isStreaming)
  /\ \A i \in CallIds :
       InProgress(i) ~> (calls[i].pc = "done" /\ ~isStreaming)

\* C23 witness: one invocation has returned after a success and one after a
\* failure, and the flag is false
C23_Witness ==
  /\ ~isStreaming
  /\ \E i, j \in CallIds :
       /\ calls[i].pc = "done" /\ NetSucceeded(calls[i].net)
       /\ calls[j].pc = "done" /\ SendChat(calls[j].net).threw
       /\ Len(requests) = 2


\* C24: in every reachable state isStreaming is true whenever the backend
\* call of at least one invocation is outstanding
C24_StreamingWhileOutstanding == Outstanding # {} => isStreaming


\* C25: a call of switchSelectedThread leaves isStreaming, the run handle
\* and selectedModel as they were, leaves every invocation and every issued
\* request as it was (no outstanding call is cancelled or settled), and
\* leaves the stored threads, the one it reads included, as they were
C25_SwitchFrame ==
  [][\A t \in userThreads :
       SwitchSelectedThread(t) =>
         /\ isStreaming' = isStreaming
         /\ runId' = runId
         /\ selectedModel' = selectedModel
         /\ calls' = calls
         /\ requests' = requests
         /\ Outstanding' = Outstanding
         /\ userThreads' = userThreads
         /\ t \in userThreads'
         /\ userId' = userId
         /\ toasts' = toasts]_vars

\* C25 witness: the timeline of t3 is shown while a request is outstanding,
\* the flag is set and a model other than the initial one is selected
C25_Witness ==
  /\ threadId = "t3"
  /\ Len(messages) = 6
  /\ Outstanding # {}
  /\ isStreaming
  /\ selectedModel = "google_genai/gemini-2.0-flash"


\* C26: every progress marker of a reconstructed timeline carries the step
\* 4, and that step is strictly greater than the step nodeToStep gives for
\* any node name, which lies in 0..3 and is 0 for a name it does not know
C26_DoneStepPastLiveSteps ==
  \A t \in userThreads : Reconstructed(t) =>
    \A k \in Positions(messages) : IsProgress(messages[k]) =>
      /\ messages[k].args.step = <<ProgressDoneStep>>
      /\ ProgressDoneStep = 4
      /\ \A node \in NodeNames :
           /\ NodeToStep(node) \in 0..RespondStep
           /\ NodeToStep(node) < messages[k].args.step[1]
           /\ node \notin {"analyze_and_route_query", "create_research_plan",
                           "conduct_research", "respond"} =>
                NodeToStep(node) = 0

\* C26 witness: a timeline with the progress markers of two human messages
C26_Witness ==
  \E t \in userThreads :
    /\ Reconstructed(t)
    /\ CountTool(messages, "progress") = 2
    /\ \A k \in Positions(messages) :
         IsProgress(messages[k]) => messages[k].args.step = <<4>>

====
